---- MODULE Spec2Model ----
(***************************************************************************)
(* Model of the fantasy-football chat backend:                             *)
(*   - the LangGraph chat agent (app/agents/langgraph_chat_agent.py) with  *)
(*     its checkpointed message log, driven by the /chat/stream endpoint   *)
(*     (app/api/agents.py);                                                *)
(*   - the Playwright session pool and the browser tools                   *)
(*     (app/tools/browser/playwright_manager.py, browser_tools.py).        *)
(***************************************************************************)
EXTENDS Integers, Sequences, FiniteSets, TLC

(***************************************************************************)
(* Bounds of the model.                                                    *)
(***************************************************************************)
\* Super-steps one graph run may execute (LangGraph's recursion limit; the
\* code passes no recursion_limit, so the library default applies).
RecursionLimit == 5
\* Failures of the environment (database, checkpointer read, context fetch,
\* model call) injected in one run.
MaxFaults == 1
\* Tool calls one assistant message may carry.
MaxCalls == 2

\* The requests to /chat/stream, each one turn; they may overlap or follow
\* one another, on the same thread or not.
Procs == {"p1", "p2"}
Threads == {"t1", "t2"}        \* thread_id values
\* The thread of request p1 is called t1; p2 uses the same thread or another.
ThreadsOf(p) == IF p = "p1" THEN {"t1"} ELSE Threads

NoId == <<>>
NoThread == "none"

(***************************************************************************)
(* Messages of the log (langchain HumanMessage / AIMessage / ToolMessage). *)
(***************************************************************************)
HumanMessage ==
    [role |-> "user", id |-> NoId, tool_calls |-> <<>>, tool_call_id |-> NoId,
     content |-> "question"]

AIMessage(mid, ncalls, text) ==
    [role |-> "assistant", id |-> mid,
     tool_calls |-> [k \in 1..ncalls |-> Append(mid, k)],
     tool_call_id |-> NoId, content |-> text]

ToolMessage(call) ==
    [role |-> "tool", id |-> NoId, tool_calls |-> <<>>, tool_call_id |-> call,
     content |-> "result"]

\* add_messages gives every message that has no id a fresh one (a uuid).
assign_ids(msgs, p, n) ==
    [i \in 1..Len(msgs) |->
        IF msgs[i].id = NoId THEN [msgs[i] EXCEPT !.id = <<p, n + i>>]
        ELSE msgs[i]]

\* The faulty reducer: plain list concatenation.
RECURSIVE concat_messages(_, _)
concat_messages(left, right) ==
    IF right = <<>> THEN left
    ELSE concat_messages(Append(left, Head(right)), Tail(right))

\* The reducer of ChatAgentState.messages: a message whose id is already in
\* the log replaces the stored one in place, any other message is appended.
RECURSIVE add_messages(_, _)
add_messages(left, right) ==
    IF right = <<>> THEN left
    ELSE LET m == Head(right)
             at == {i \in 1..Len(left) : left[i].id = m.id}
         IN IF at # {}
            THEN add_messages([left EXCEPT ![CHOOSE i \in at : TRUE] = m],
                              Tail(right))
            ELSE add_messages(Append(left, m), Tail(right))

Min(S) == CHOOSE x \in S : \A y \in S : x <= y

\* An event sent to the caller; by says who produced it: chat_stream ("agent")
\* or generate_stream itself ("api").
Event(type, message) == [type |-> type, message |-> message, by |-> "agent"]

ApiEvent(type, message) == [type |-> type, message |-> message, by |-> "api"]

VARIABLES
    initialized,      \* LangGraphChatAgent._initialized
    store,            \* checkpointer: latest checkpoint of every thread
    conversation,     \* conversation_service: saved messages per thread
    pc,               \* where each request is
    thread,           \* the request's thread_id
    base,             \* the checkpoint stored when the turn called aget_state
    has_existing_state, \* chat_stream's has_existing_state
    initial_state,    \* the messages chat_stream hands to graph.astream
    channels,         \* the running graph's messages channel
    next_node,        \* the node the graph runs next
    step,             \* super-steps executed by the graph run
    invocations,      \* model.ainvoke calls of the turn
    ids,              \* ids handed out by the request so far
    stream,           \* events generate_stream sent to the caller
    faults,           \* failures injected so far
    full_response,    \* generate_stream's full_response
    executed,             \* the nodes the graph run of the turn has executed
    completed,        \* the order in which the handlers of the last tools step finished
    roster_data,      \* the roster context the fetch_context step put in the state
    sessions,         \* PlaywrightManager.sessions
    clock,            \* datetime.now()
    current_session_id, \* browser_tools._current_session_id
    current_thread_id,  \* browser_tools._current_thread_id
    tpc,              \* where each browser tool call is
    bound,            \* the session and thread its turn set for the call
    used,             \* the session the call got from _get_current_session
    result,           \* what the tool call returned
    navigations,      \* the page.goto calls made so far
    screenshots,      \* the screenshots saved so far
    ops,              \* the operations of the pool in progress
    lock,             \* who holds PlaywrightManager._lock
    runs,             \* the calls of OrchestratorAgent.run
    conversation_history, \* ChatAgent.conversation_history
    chats,            \* the calls of ChatAgent.chat and chat_stream
    calls_made,       \* how many of them were made so far
    appended          \* every entry appended to the history, in order

engineVars == <<initialized, store, conversation, pc, thread, base,
                has_existing_state, initial_state, channels, next_node, step,
                invocations, ids, stream, faults, full_response, executed,
                completed, roster_data>>

browserVars == <<sessions, clock, current_session_id, current_thread_id, tpc,
                 bound, used, result, navigations, screenshots, ops, lock>>

agentVars == <<runs, conversation_history, chats, calls_made, appended>>

vars == <<engineVars, browserVars, agentVars>>

EmptyCheckpoint == [messages |-> <<>>, version |-> 0]

InitEngine ==
    /\ initialized = FALSE
    /\ store = [t \in Threads |-> EmptyCheckpoint]
    /\ conversation = [t \in Threads |-> <<>>]
    /\ pc = [p \in Procs |-> "idle"]
    /\ thread = [p \in Procs |-> NoThread]
    /\ base = [p \in Procs |-> EmptyCheckpoint]
    /\ has_existing_state = [p \in Procs |-> FALSE]
    /\ initial_state = [p \in Procs |-> <<>>]
    /\ channels = [p \in Procs |-> <<>>]
    /\ next_node = [p \in Procs |-> "none"]
    /\ step = [p \in Procs |-> 0]
    /\ invocations = [p \in Procs |-> 0]
    /\ ids = [p \in Procs |-> 0]
    /\ faults = 0
    /\ stream = [p \in Procs |-> <<>>]
    /\ full_response = [p \in Procs |-> ""]
    /\ executed = [p \in Procs |-> <<>>]
    /\ completed = [p \in Procs |-> <<>>]
    /\ roster_data = [p \in Procs |-> "None"]

\* A checkpointer whose writes are put off.
put_later(t, msgs) == store

\* The checkpointer's put: the new checkpoint becomes the thread's latest one.
\* Nothing compares the writer's base with what is stored.
put(t, msgs) == [store EXCEPT ![t] = [messages |-> msgs, version |-> @.version + 1]]

\* chat_stream yields evs; generate_stream forwards each of them as it comes.
yield(p, evs) == stream' = [stream EXCEPT ![p] = @ \o evs]

Done == ApiEvent("done", "")

\* An operation of the environment succeeds, or fails while failures are left.
outcome(ok) == faults' = IF ok THEN faults ELSE faults + 1

MayFail == IF faults < MaxFaults THEN BOOLEAN ELSE {TRUE}

\* lifespan: langgraph_chat_agent.initialize()
Initialize ==
    /\ ~initialized
    /\ initialized' = TRUE
    /\ UNCHANGED <<agentVars, browserVars, roster_data, executed, completed, store, conversation, pc, thread, base,
                   has_existing_state, initial_state, channels, next_node,
                   step, invocations, ids, stream, faults, full_response>>

\* generate_stream up to the metadata event: the conversation is fetched or
\* created and the user message saved; a failure there goes to its except.
StartRequest(p, t, db_ok) ==
    /\ pc[p] = "idle"
    /\ outcome(db_ok)
    /\ thread' = [thread EXCEPT ![p] = t]
    /\ base' = [base EXCEPT ![p] = EmptyCheckpoint]
    /\ has_existing_state' = [has_existing_state EXCEPT ![p] = FALSE]
    /\ initial_state' = [initial_state EXCEPT ![p] = <<>>]
    /\ channels' = [channels EXCEPT ![p] = <<>>]
    /\ next_node' = [next_node EXCEPT ![p] = "none"]
    /\ step' = [step EXCEPT ![p] = 0]
    /\ invocations' = [invocations EXCEPT ![p] = 0]
    /\ full_response' = [full_response EXCEPT ![p] = ""]
    /\ IF db_ok
       THEN /\ conversation' = [conversation EXCEPT ![t] = Append(@, "user")]
            /\ stream' = [stream EXCEPT ![p] = <<ApiEvent("metadata", t)>>]
            /\ pc' = [pc EXCEPT ![p] = "chat_stream"]
       ELSE /\ conversation' = conversation
            /\ stream' = [stream EXCEPT ![p] = <<ApiEvent("error", "database")>>]
            /\ pc' = [pc EXCEPT ![p] = "closed"]
    /\ UNCHANGED <<agentVars, browserVars, roster_data, executed, completed, initialized, store, ids>>

\* chat_stream when the agent was never initialised: one error event, after
\* which generate_stream has nothing to save and sends done.
NotInitialized(p) ==
    /\ pc[p] = "chat_stream"
    /\ ~initialized
    /\ yield(p, <<Event("error", "Agent not initialized"), Done>>)
    /\ pc' = [pc EXCEPT ![p] = "closed"]
    /\ UNCHANGED <<agentVars, browserVars, roster_data, executed, completed, initialized, store, conversation, thread, base,
                   has_existing_state, initial_state, channels, next_node,
                   step, invocations, ids, faults, full_response>>

\* chat_stream up to its first yield: aget_state (a failure of which is caught
\* and taken for "no state") and the construction of initial_state.
ChatStreamEntry(p, read_ok) ==
    /\ pc[p] = "chat_stream"
    /\ initialized
    /\ outcome(read_ok)
    /\ LET snapshot == store[thread[p]]
           existing == read_ok /\ snapshot.version > 0
       IN /\ base' = [base EXCEPT ![p] = snapshot]
          /\ has_existing_state' = [has_existing_state EXCEPT ![p] = existing]
          /\ initial_state' = [initial_state EXCEPT ![p] =
                 IF existing THEN Append(snapshot.messages, HumanMessage)
                 ELSE <<HumanMessage>>]
    /\ yield(p, <<Event("status", "Fetching your roster data...")>>)
    /\ pc' = [pc EXCEPT ![p] = "astream"]
    /\ UNCHANGED <<agentVars, browserVars, roster_data, executed, completed, initialized, store, conversation, thread, channels,
                   next_node, step, invocations, ids, full_response>>

\* A super-step may run only below the recursion limit.
within_limit_off_by_one(s) == s <= RecursionLimit

within_limit(s) == s < RecursionLimit

\* graph.astream starts: the latest checkpoint is loaded, the input is merged
\* into it by the channel reducers and the input checkpoint is written.
AstreamEnter(p) ==
    /\ pc[p] = "astream"
    /\ LET t == thread[p]
           input == assign_ids(initial_state[p], p, ids[p])
           merged == add_messages(store[t].messages, input)
       IN /\ channels' = [channels EXCEPT ![p] = merged]
          /\ store' = put(t, merged)
          /\ ids' = [ids EXCEPT ![p] = @ + Len(input)]
    /\ next_node' = [next_node EXCEPT ![p] = "fetch_context"]
    /\ step' = [step EXCEPT ![p] = 0]
    /\ executed' = [executed EXCEPT ![p] = <<>>]
    /\ pc' = [pc EXCEPT ![p] = "graph"]
    /\ UNCHANGED <<agentVars, browserVars, roster_data, initialized, conversation, thread, base,
                   has_existing_state, initial_state, invocations, stream,
                   faults, full_response, completed>>

\* A context fetch that lets the exception of the fetch leave the node.
_fetch_context_node_uncaught(fetch_ok) ==
    [raised |-> ~fetch_ok, roster_data |-> "loaded",
     status_message |-> "Context loaded"]

\* _fetch_context_node: the fetch runs inside try/except; on an exception the
\* node returns empty roster and player data and the status of the problem.
_fetch_context_node(fetch_ok) ==
    [raised |-> FALSE,
     roster_data |-> IF fetch_ok THEN "loaded" ELSE "empty",
     status_message |-> IF fetch_ok THEN "Context loaded"
                        ELSE "Error loading context"]

\* The fetch_context step of the graph; an exception leaving the node would
\* leave astream and reach chat_stream's except.
FetchContext(p, fetch_ok) ==
    /\ pc[p] = "graph"
    /\ next_node[p] = "fetch_context"
    /\ within_limit(step[p])
    /\ outcome(fetch_ok)
    /\ executed' = [executed EXCEPT ![p] = Append(@, "fetch_context")]
    /\ LET node_state == _fetch_context_node(fetch_ok)
       IN IF node_state.raised
          THEN /\ yield(p, <<Event("error", "ContextFetchFailure"), Done>>)
               /\ pc' = [pc EXCEPT ![p] = "closed"]
               /\ UNCHANGED <<store, step, next_node, roster_data>>
          ELSE /\ store' = put(thread[p], channels[p])
               /\ roster_data' = [roster_data EXCEPT ![p] = node_state.roster_data]
               /\ yield(p, <<Event("status", node_state.status_message)>>)
               /\ step' = [step EXCEPT ![p] = @ + 1]
               /\ next_node' = [next_node EXCEPT ![p] = "agent"]
               /\ pc' = pc
    /\ UNCHANGED <<agentVars, browserVars, initialized, conversation, thread, base,
                   has_existing_state, initial_state, channels, invocations,
                   ids, full_response, completed>>

\* What the model may answer: a text (possibly empty) without tool calls, or
\* an assistant message with tool calls.
ModelAnswers ==
    {[ncalls |-> 0, content |-> c] : c \in {"", "answer"}}
    \cup {[ncalls |-> MaxCalls, content |-> ""]}

\* _agent_node when model.ainvoke raises: the exception leaves astream and
\* chat_stream's except yields the error event.
AgentFails(p) ==
    /\ pc[p] = "graph"
    /\ next_node[p] = "agent"
    /\ within_limit(step[p])
    /\ FALSE \in MayFail
    /\ outcome(FALSE)
    /\ invocations' = [invocations EXCEPT ![p] = @ + 1]
    /\ executed' = [executed EXCEPT ![p] = Append(@, "agent")]
    /\ completed' = [completed EXCEPT ![p] = <<>>]
    /\ yield(p, <<Event("error", "ModelInvocationFailure"), Done>>)
    /\ pc' = [pc EXCEPT ![p] = "closed"]
    /\ UNCHANGED <<agentVars, browserVars, roster_data, initialized, store, conversation, thread, base,
                   has_existing_state, initial_state, channels, next_node,
                   step, ids, full_response>>

\* A router that ends the graph whatever the last message holds.
_should_continue_always_end(last_message) == "end"

\* _should_continue: on to the tools when the last message has tool calls.
_should_continue(last_message) ==
    IF last_message.tool_calls # <<>> THEN "continue" ELSE "end"

\* _agent_node followed by _should_continue and, when the graph ends, by the
\* rest of chat_stream, whose response event generate_stream collects.
AgentNode(p, answer) ==
    /\ pc[p] = "graph"
    /\ next_node[p] = "agent"
    /\ within_limit(step[p])
    /\ invocations' = [invocations EXCEPT ![p] = @ + 1]
    /\ executed' = [executed EXCEPT ![p] = Append(@, "agent")]
    /\ completed' = [completed EXCEPT ![p] = <<>>]
    /\ LET response == AIMessage(<<p, ids[p] + 1>>, answer.ncalls, answer.content)
           merged == add_messages(channels[p], <<response>>)
           using == IF response.tool_calls # <<>>
                    THEN <<Event("status", "Using tools")>> ELSE <<>>
       IN /\ channels' = [channels EXCEPT ![p] = merged]
          /\ store' = put(thread[p], merged)
          /\ ids' = [ids EXCEPT ![p] = @ + 1]
          /\ step' = [step EXCEPT ![p] = @ + 1]
          /\ IF _should_continue(response) = "continue"
             THEN /\ yield(p, <<Event("status", "Agent responded")>> \o using)
                  /\ next_node' = [next_node EXCEPT ![p] = "tools"]
                  /\ pc' = pc
                  /\ full_response' = full_response
             ELSE /\ yield(p, <<Event("status", "Agent responded")>> \o using
                                 \o <<Event("response", response.content)>>)
                  /\ next_node' = [next_node EXCEPT ![p] = "END"]
                  /\ pc' = [pc EXCEPT ![p] = "persist"]
                  /\ full_response' = [full_response EXCEPT ![p] =
                                          response.content]
    /\ UNCHANGED <<agentVars, browserVars, roster_data, initialized, conversation, thread, base,
                   has_existing_state, initial_state, faults>>

\* A ToolNode that lets the exception of a handler leave the node.
propagate_tool_errors == FALSE

\* ToolNode(ALL_TOOLS) is built with the default handle_tool_errors: the
\* exception of a handler becomes an error tool message. (The browser tools
\* catch their own exceptions and return an error result, to the same effect.)
handle_tool_errors == TRUE

ErrorToolMessage(call) == [ToolMessage(call) EXCEPT !.content = "error"]

\* The result of a handler that took longer than a caller is ready to wait,
\* e.g. sleep_ms with a long duration: nothing times it out.
LateToolMessage(call) == [ToolMessage(call) EXCEPT !.content = "late result"]

\* Every handler of the tools step returns its result in time.
NoFault == [call |-> 0, kind |-> "none"]

\* What may go wrong in one tools step: nothing, or one handler raises or is late.
ToolFaults(n) ==
    {NoFault}
    \cup (IF faults < MaxFaults
          THEN {[call |-> k, kind |-> kd] : k \in 1..n, kd \in {"raises", "late"}}
          ELSE {})

\* What the handler of the k-th tool call returns.
ToolOutcome(calls, k, fault) ==
    IF fault.call # k THEN ToolMessage(calls[k])
    ELSE IF fault.kind = "raises" THEN ErrorToolMessage(calls[k])
    ELSE LateToolMessage(calls[k])

\* The orders in which n handlers running at the same time may finish.
CompletionOrders(n) ==
    {f \in [1..n -> 1..n] : \A i, j \in 1..n : f[i] = f[j] => i = j}

\* The handlers finish in the order of their calls.
CallOrder(n) == [k \in 1..n |-> k]

\* Results collected in the order in which the handlers finish.
as_completed(outcomes, order) == [i \in DOMAIN order |-> outcomes[order[i]]]

\* The slot of a handler that has not finished.
NoResult == [role |-> "none"]

RECURSIVE fill(_, _, _)
fill(slots, outcomes, order) ==
    IF order = <<>> THEN slots
    ELSE fill([slots EXCEPT ![Head(order)] = outcomes[Head(order)]],
              outcomes, Tail(order))

\* ToolNode runs the handlers of one message at the same time and collects
\* their results with asyncio.gather: each result goes to the slot of its call.
gather(outcomes, order) ==
    fill([k \in DOMAIN outcomes |-> NoResult], outcomes, order)

\* ToolNode(ALL_TOOLS): one tool message per tool call of the last message.
ToolsNode(p, fault, order) ==
    /\ pc[p] = "graph"
    /\ next_node[p] = "tools"
    /\ within_limit(step[p])
    /\ executed' = [executed EXCEPT ![p] = Append(@, "tools")]
    /\ LET last == channels[p][Len(channels[p])]
           n == Len(last.tool_calls)
       IN   /\ fault \in ToolFaults(n)
            /\ order \in CompletionOrders(n)
            /\ outcome(fault.call = 0)
            /\ completed' = [completed EXCEPT ![p] = order]
            /\ IF fault.kind = "raises" /\ ~handle_tool_errors
               THEN /\ yield(p, <<Event("error", "ToolException"), Done>>)
                    /\ pc' = [pc EXCEPT ![p] = "closed"]
                    /\ UNCHANGED <<channels, store, ids, step, next_node>>
               ELSE LET outcomes == [k \in 1..n |->
                                        ToolOutcome(last.tool_calls, k, fault)]
                        results == assign_ids(gather(outcomes, order), p, ids[p])
                        merged == add_messages(channels[p], results)
                    IN /\ channels' = [channels EXCEPT ![p] = merged]
                       /\ store' = put(thread[p], merged)
                       /\ ids' = [ids EXCEPT ![p] = @ + Len(results)]
                       /\ step' = [step EXCEPT ![p] = @ + 1]
                       /\ next_node' = [next_node EXCEPT ![p] = "agent"]
                       /\ UNCHANGED <<pc, stream>>
    /\ UNCHANGED <<agentVars, browserVars, roster_data, initialized, conversation, thread, base,
                   has_existing_state, initial_state, invocations,
                   full_response>>

\* The graph has a node to run and no super-step left: astream raises
\* GraphRecursionError, which chat_stream's except turns into an error event.
RecursionError(p) ==
    /\ pc[p] = "graph"
    /\ next_node[p] \in {"fetch_context", "agent", "tools"}
    /\ ~within_limit(step[p])
    /\ completed' = [completed EXCEPT ![p] = <<>>]
    /\ yield(p, <<Event("error", "GraphRecursionError"), Done>>)
    /\ pc' = [pc EXCEPT ![p] = "closed"]
    /\ UNCHANGED <<agentVars, browserVars, roster_data, initialized, store, conversation, thread, base,
                   has_existing_state, initial_state, channels, next_node,
                   step, invocations, ids, faults, full_response, executed>>

\* The caller goes away while the turn runs: the task that iterates
\* generate_stream is cancelled. CancelledError is no Exception, so neither
\* chat_stream's nor generate_stream's except runs, and the graph run is
\* abandoned where it is, its running handlers included.
ClientDisconnects(p) ==
    /\ pc[p] \in {"chat_stream", "astream", "graph", "persist"}
    /\ FALSE \in MayFail
    /\ outcome(FALSE)
    /\ pc' = [pc EXCEPT ![p] = "cancelled"]
    /\ UNCHANGED <<agentVars, browserVars, roster_data, initialized, store, conversation, thread, base,
                   has_existing_state, initial_state, channels, next_node,
                   step, invocations, ids, stream, full_response, executed,
                   completed>>

\* generate_stream after the agent's stream ended with an empty response
\* text: nothing is saved.
NothingToPersist(p) ==
    /\ pc[p] = "persist"
    /\ full_response[p] = ""
    /\ yield(p, <<Done>>)
    /\ pc' = [pc EXCEPT ![p] = "closed"]
    /\ UNCHANGED <<agentVars, browserVars, roster_data, executed, completed, initialized, store, conversation, thread, base,
                   has_existing_state, initial_state, channels, next_node,
                   step, invocations, ids, faults, full_response>>

\* generate_stream after the agent's stream ended with a response text: the
\* assistant message is saved; a failing save goes to the except branch,
\* which sends an error event.
PersistAnswer(p, db_ok) ==
    /\ pc[p] = "persist"
    /\ full_response[p] # ""
    /\ outcome(db_ok)
    /\ pc' = [pc EXCEPT ![p] = "closed"]
    /\ IF db_ok
       THEN /\ conversation' = [conversation EXCEPT ![thread[p]] =
                                   Append(@, "assistant")]
            /\ yield(p, <<Done>>)
       ELSE /\ conversation' = conversation
            /\ yield(p, <<ApiEvent("error", "database")>>)
    /\ UNCHANGED <<agentVars, browserVars, roster_data, executed, completed, initialized, store, thread, base, has_existing_state,
                   initial_state, channels, next_node, step, invocations, ids,
                   full_response>>

(***************************************************************************)
(* The Playwright session pool and the browser tools.                      *)
(***************************************************************************)
\* Ticks of the clock.
MaxClock == 2

Sessions == {"s1", "s2"}       \* session_id values
Tasks == {"k1", "k2"}          \* tool calls in flight, one per running turn
\* The thread of the turn that dispatched the tool call.
TaskThread(k) == IF k = "k1" THEN "t1" ELSE "t2"
None == "None"

\* A URL is its list of name parts: scheme, host labels and, after "/", the
\* labels of the path. A domain is a list of labels.
Url(host, path) ==
    <<"https">> \o host \o (IF path = <<>> THEN <<>> ELSE <<"/">> \o path)

HostOf(url) ==
    LET slashes == {i \in DOMAIN url : url[i] = "/"}
        last == IF slashes = {} THEN Len(url) ELSE Min(slashes) - 1
    IN SubSeq(url, 2, last)

\* PlaywrightManager.allowed_domains
allowed_domains ==
    {<<"sleeper", "app">>, <<"sleeper", "com">>,
     <<"accounts", "google", "com">>, <<"accounts", "google", "co", "uk">>}

\* The URLs handed to open_page.
Urls ==
    {Url(<<"www", "sleeper", "com">>, <<"leagues">>),
     Url(<<"evil", "example", "com">>, <<>>),
     Url(<<"evil", "example", "com">>, <<"sleeper", "com">>)}

\* The destination host is an allowed domain or a subdomain of one.
HostAllowed(url) ==
    \E d \in allowed_domains :
        LET h == HostOf(url)
        IN Len(h) >= Len(d) /\ SubSeq(h, Len(h) - Len(d) + 1, Len(h)) = d

\* Python's "domain in url" on strings: the domain occurs somewhere in the URL.
in_url(d, url) ==
    \E i \in 1..(Len(url) - Len(d) + 1) : SubSeq(url, i, i + Len(d) - 1) = d

\* open_page's check: any(domain in url for domain in allowed_domains)
allowed(url) == \E d \in allowed_domains : in_url(d, url)

\* The URLs the Sleeper workflows build themselves.
SleeperHome == Url(<<"sleeper", "com">>, <<>>)

LineupUrl(league_id, week) == Url(<<"sleeper", "com">>, <<"leagues", league_id, week>>)

Tools == {"open_page", "navigate_to_lineup", "open_sleeper_browser",
          "take_screenshot"}

\* The arguments of a tool call: a tool and, for open_page, its URL.
ToolCalls ==
    {[tool |-> "open_page", url |-> u] : u \in Urls}
    \cup {[tool |-> "navigate_to_lineup", url |-> LineupUrl("league", "week")],
          [tool |-> "open_sleeper_browser", url |-> SleeperHome],
          [tool |-> "take_screenshot", url |-> <<>>]}

NoSession == [present |-> FALSE, is_active |-> FALSE, last_activity |-> 0]

\* A session that was created, closed and taken out of the map; ids are uuids
\* and never come back.
Removed == [present |-> FALSE, is_active |-> FALSE, last_activity |-> -1]

\* A session that was taken out of the map without BrowserSession.close():
\* its page and context are still open.
Dropped == [present |-> FALSE, is_active |-> TRUE, last_activity |-> -1]

NoBinding == [session |-> None, thread |-> None]

\* The calls of close_session, cleanup_expired_sessions and stop that may be
\* in progress at the same time.
PoolOps == {"o1", "o2"}

\* Ticks without activity after which the sweep takes a session for expired.
SessionTimeout == 1

\* An operation: what it is, where it is, the session it closes, the sessions
\* the sweep or stop has still to close, the keys of the map at its last read
\* of it, how it ended, the ids the sweep collected as expired and the number
\* the sweep returned (-1: none).
NoOp == [kind |-> "none", pc |-> "idle", target |-> None, todo |-> {},
         snapshot |-> {}, result |-> "none", expired |-> {}, count |-> -1]

InitBrowser ==
    /\ sessions = [s \in Sessions |-> NoSession]
    /\ clock = 0
    /\ current_session_id = None
    /\ current_thread_id = None
    /\ tpc = [k \in Tasks |-> "new"]
    /\ bound = [k \in Tasks |-> NoBinding]
    /\ used = [k \in Tasks |-> None]
    /\ result = [k \in Tasks |-> "none"]
    /\ navigations = {}
    /\ screenshots = {}
    /\ ops = [o \in PoolOps |-> NoOp]
    /\ lock = None

Tick ==
    /\ clock < MaxClock
    /\ clock' = clock + 1
    /\ UNCHANGED <<agentVars, engineVars, ops, lock, sessions, current_session_id, current_thread_id,
                   tpc, bound, used, result, navigations, screenshots>>

\* PlaywrightManager.create_session, called by start_browser_session with a
\* fresh uuid as session_id.
create_session(s) ==
    /\ sessions[s] = NoSession
    /\ sessions' = [sessions EXCEPT ![s] =
           [present |-> TRUE, is_active |-> TRUE, last_activity |-> clock]]
    /\ UNCHANGED <<agentVars, engineVars, ops, lock, clock, current_session_id, current_thread_id,
                   tpc, bound, used, result, navigations, screenshots>>

\* set_browser_context(session_id, thread_id), called for the turn that is
\* about to dispatch tool call k: it writes the two module globals.
set_browser_context(k, s) ==
    /\ tpc[k] = "new"
    /\ current_session_id' = s
    /\ current_thread_id' = TaskThread(k)
    /\ bound' = [bound EXCEPT ![k] = [session |-> s, thread |-> TaskThread(k)]]
    /\ tpc' = [tpc EXCEPT ![k] = "ready"]
    /\ UNCHANGED <<agentVars, engineVars, ops, lock, sessions, clock, used, result, navigations,
                   screenshots>>

\* A lookup that returns whatever the map holds under the id.
get_session_any(s) ==
    IF s \in Sessions /\ sessions[s].present THEN s ELSE None

\* PlaywrightManager.get_session: the session, when it is in the map and
\* active; it takes no lock.
get_session(s) ==
    IF s \in Sessions /\ sessions[s].present /\ sessions[s].is_active
    THEN s ELSE None

\* Whether the tool refuses the call before it drives the page: open_page
\* checks its URL, take_screenshot needs a thread id, the others check nothing.
refused(call) ==
    \/ call.tool = "open_page" /\ ~allowed(call.url)
    \/ call.tool = "take_screenshot" /\ current_thread_id = None

\* A browser tool up to its first page operation: _get_current_session, the
\* tool's own checks, then page.goto or page.screenshot is awaited.
ToolStart(k, call) ==
    /\ tpc[k] = "ready"
    /\ LET s == IF current_session_id = None THEN None
                ELSE get_session(current_session_id)
       IN IF s = None
          THEN \* ValueError, caught by the tool's except
               /\ result' = [result EXCEPT ![k] = "error"]
               /\ tpc' = [tpc EXCEPT ![k] = "done"]
               /\ UNCHANGED <<sessions, used, navigations>>
          ELSE /\ sessions' = [sessions EXCEPT ![s].last_activity = clock]
               /\ IF refused(call)
                  THEN /\ result' = [result EXCEPT ![k] = "error"]
                       /\ tpc' = [tpc EXCEPT ![k] = "done"]
                       /\ UNCHANGED <<used, navigations>>
                  ELSE /\ used' = [used EXCEPT ![k] = s]
                       /\ tpc' = [tpc EXCEPT ![k] = "driving"]
                       /\ result' = result
                       /\ navigations' =
                              IF call.tool = "take_screenshot" THEN navigations
                              ELSE navigations \cup
                                       {[task |-> k, session |-> s, url |-> call.url]}
    /\ UNCHANGED <<agentVars, engineVars, ops, lock, clock, current_session_id, current_thread_id,
                   bound, screenshots>>

\* The awaited page operation of a navigation tool returns.
NavigationDone(k) ==
    /\ tpc[k] = "driving"
    /\ \E n \in navigations : n.task = k
    /\ result' = [result EXCEPT ![k] = "success"]
    /\ tpc' = [tpc EXCEPT ![k] = "done"]
    /\ UNCHANGED <<agentVars, engineVars, ops, lock, sessions, clock, current_session_id,
                   current_thread_id, bound, used, navigations, screenshots>>

\* page.screenshot returns and take_screenshot saves the picture under the
\* thread id the module global holds at that time.
ScreenshotDone(k) ==
    /\ tpc[k] = "driving"
    /\ ~\E n \in navigations : n.task = k
    /\ screenshots' = screenshots \cup
           {[task |-> k, session |-> used[k], thread |-> current_thread_id]}
    /\ result' = [result EXCEPT ![k] = "success"]
    /\ tpc' = [tpc EXCEPT ![k] = "done"]
    /\ UNCHANGED <<agentVars, engineVars, ops, lock, sessions, clock, current_session_id,
                   current_thread_id, bound, used, navigations>>

\* The keys of PlaywrightManager.sessions.
Present == {s \in Sessions : sessions[s].present}

\* A session counted as expired as soon as the timeout is reached.
is_expired_at_timeout(s) == clock - sessions[s].last_activity >= SessionTimeout

\* BrowserSession.is_expired(timeout_minutes)
is_expired(s) == clock - sessions[s].last_activity > SessionTimeout

\* What the operation returns: len(expired) for the sweep, nothing otherwise.
returned(op) == IF op.kind = "sweep" THEN Cardinality(op.expired) ELSE -1

\* close_session up to its await: session = self.sessions.get(session_id) and,
\* when there is one, session.close() is awaited. No lock is taken.
close_session_begin(o, s) ==
    /\ ops[o] = NoOp
    /\ ops' = [ops EXCEPT ![o] =
           IF sessions[s].present
           THEN [NoOp EXCEPT !.kind = "close", !.pc = "closing", !.target = s,
                             !.snapshot = Present]
           ELSE [NoOp EXCEPT !.kind = "close", !.pc = "done", !.result = "ok"]]
    /\ UNCHANGED <<agentVars, engineVars, sessions, clock, current_session_id,
                   current_thread_id, tpc, bound, used, result, navigations,
                   screenshots, lock>>

\* close_session after session.close() returned: del self.sessions[session_id],
\* a KeyError when the key is gone. Inside the sweep the next expired id follows.
close_session_end(o) ==
    /\ ops[o].pc = "closing"
    /\ LET s == ops[o].target
           found == sessions[s].present
           rest == ops[o].todo \ {s}
       IN /\ sessions' = IF found THEN [sessions EXCEPT ![s] = Removed]
                         ELSE sessions
          /\ ops' = [ops EXCEPT ![o] =
                 IF ~found
                 THEN [@ EXCEPT !.pc = "done", !.result = "KeyError"]
                 ELSE IF rest # {}
                 THEN [@ EXCEPT !.pc = "sweeping", !.todo = rest]
                 ELSE [@ EXCEPT !.pc = "done", !.result = "ok", !.todo = {},
                                !.count = returned(ops[o])]]
    /\ UNCHANGED <<agentVars, engineVars, clock, current_session_id, current_thread_id,
                   tpc, bound, used, result, navigations, screenshots, lock>>

\* cleanup_expired_sessions up to its first await: the expired ids are
\* collected from the map. No lock is taken.
cleanup_expired_sessions(o) ==
    /\ ops[o] = NoOp
    /\ LET expired == {s \in Present : is_expired(s)}
       IN ops' = [ops EXCEPT ![o] =
              IF expired = {}
              THEN [NoOp EXCEPT !.kind = "sweep", !.pc = "done", !.result = "ok",
                                !.snapshot = Present, !.count = 0]
              ELSE [NoOp EXCEPT !.kind = "sweep", !.pc = "sweeping",
                                !.todo = expired, !.expired = expired,
                                !.snapshot = Present]]
    /\ UNCHANGED <<agentVars, engineVars, sessions, clock, current_session_id,
                   current_thread_id, tpc, bound, used, result, navigations,
                   screenshots, lock>>

\* The sweep calls close_session for the next expired id: the map is read
\* again and session.close() awaited.
cleanup_next(o) ==
    /\ ops[o].pc = "sweeping"
    /\ \E s \in ops[o].todo :
         LET rest == ops[o].todo \ {s}
         IN ops' = [ops EXCEPT ![o] =
                IF sessions[s].present
                THEN [@ EXCEPT !.pc = "closing", !.target = s,
                               !.snapshot = Present]
                ELSE IF rest # {} THEN [@ EXCEPT !.todo = rest]
                ELSE [@ EXCEPT !.pc = "done", !.result = "ok", !.todo = {},
                               !.count = returned(ops[o])]]
    /\ UNCHANGED <<agentVars, engineVars, sessions, clock, current_session_id,
                   current_thread_id, tpc, bound, used, result, navigations,
                   screenshots, lock>>

\* stop up to its await: under _lock, the sessions of list(self.sessions.values())
\* are closed one by one. With no session there is nothing to await before
\* the map is cleared.
stop_begin(o) ==
    /\ ops[o] = NoOp
    /\ lock = None
    /\ IF Present = {}
       THEN /\ lock' = lock
            /\ ops' = [ops EXCEPT ![o] =
                   [NoOp EXCEPT !.kind = "stop", !.pc = "done", !.result = "ok"]]
       ELSE /\ lock' = o
            /\ ops' = [ops EXCEPT ![o] =
                   [NoOp EXCEPT !.kind = "stop", !.pc = "stopping",
                                !.todo = Present, !.snapshot = Present]]
    /\ UNCHANGED <<agentVars, engineVars, sessions, clock, current_session_id,
                   current_thread_id, tpc, bound, used, result, navigations,
                   screenshots>>

\* stop awaits session.close() of the next session it listed: the session is
\* no longer active, and stays in the map.
stop_close(o) ==
    /\ ops[o].pc = "stopping"
    /\ \E s \in ops[o].todo :
         /\ sessions' = IF sessions[s].present
                         THEN [sessions EXCEPT ![s].is_active = FALSE]
                         ELSE sessions
         /\ ops' = [ops EXCEPT ![o].todo = @ \ {s}]
    /\ UNCHANGED <<agentVars, engineVars, clock, current_session_id, current_thread_id,
                   tpc, bound, used, result, navigations, screenshots, lock>>

\* stop after the sessions it listed are closed: self.sessions.clear(), and
\* the lock is released. A session the map holds that stop did not close
\* leaves the map open.
stop_end(o) ==
    /\ ops[o].pc = "stopping"
    /\ ops[o].todo = {}
    /\ sessions' = [s \in Sessions |->
                       IF ~sessions[s].present THEN sessions[s]
                       ELSE IF sessions[s].is_active THEN Dropped
                       ELSE Removed]
    /\ lock' = None
    /\ ops' = [ops EXCEPT ![o] = [@ EXCEPT !.pc = "done", !.result = "ok"]]
    /\ UNCHANGED <<agentVars, engineVars, clock, current_session_id, current_thread_id,
                   tpc, bound, used, result, navigations, screenshots>>

(***************************************************************************)
(* OrchestratorAgent.                                                      *)
(***************************************************************************)
\* The calls of run that may be in progress at the same time.
Runs == {"r1", "r2"}

\* AgentState.task_type; the last one has no agent of its own.
TaskTypes == {"sit_start", "lineup_optimization", "trade_analysis", "waiver_wire"}

\* A call of run: where it is, its task, state["current_step"] and the values
\* it took, the steps called, and what run returned or raised.
NoRun == [pc |-> "idle", task_type |-> None, current_step |-> None,
          steps |-> <<>>, called |-> <<>>, returned |-> None, raised |-> FALSE]

InitOrchestrator == runs = [r \in Runs |-> NoRun]

\* state["current_step"] = step
set_step(state, value) ==
    [state EXCEPT !.current_step = value, !.steps = Append(@, value)]

\* A run whose try has no except: the exception reaches the caller.
run_propagates(state, error) ==
    [state EXCEPT !.pc = "returned", !.raised = TRUE]

\* The except of run: the error is logged and a result is returned in place
\* of the state.
run_catches(state, error) ==
    [state EXCEPT !.pc = "returned",
                !.returned = [error |-> error, current_step |-> "failed"]]

\* run up to its first await: the state is built from initial_state, a
\* KeyError when a required key is missing, and initialize_state is called.
run(r, task_type, complete) ==
    /\ runs[r] = NoRun
    /\ runs' = [runs EXCEPT ![r] =
           IF complete
           THEN [set_step(@, "pending") EXCEPT
                     !.pc = "initialize_state", !.task_type = task_type,
                     !.called = <<"initialize_state">>]
           ELSE run_catches(@, "KeyError")]
    /\ UNCHANGED <<engineVars, browserVars, conversation_history, chats, calls_made,
                   appended>>

\* initialize_state after its fetches: the step is "initialized" and
\* route_task is called, which sets the step of its task type before it
\* awaits the agent of the task; a task type without an agent is not analysed.
initialize_state(r, fetch_ok) ==
    /\ runs[r].pc = "initialize_state"
    /\ runs' = [runs EXCEPT ![r] =
           IF ~fetch_ok THEN run_catches(@, "fetch failed")
           ELSE LET routed == [set_step(@, "initialized") EXCEPT
                                   !.called = Append(@, "route_task")]
                IN IF routed.task_type \in {"sit_start", "lineup_optimization"}
                   THEN [set_step(routed, "analyzing_players") EXCEPT
                             !.pc = "route_task"]
                   ELSE IF routed.task_type = "trade_analysis"
                   THEN [set_step(routed, "analyzing_trade") EXCEPT
                             !.pc = "route_task"]
                   ELSE [routed EXCEPT !.pc = "finalize_results"]]
    /\ UNCHANGED <<engineVars, browserVars, conversation_history, chats, calls_made,
                   appended>>

\* route_task after the agent of the task returned or raised.
route_task(r, analysis_ok) ==
    /\ runs[r].pc = "route_task"
    /\ runs' = [runs EXCEPT ![r] =
           IF analysis_ok THEN [@ EXCEPT !.pc = "finalize_results"]
           ELSE run_catches(@, "analysis failed")]
    /\ UNCHANGED <<engineVars, browserVars, conversation_history, chats, calls_made,
                   appended>>

\* finalize_results, and run returns the state.
finalize_results(r) ==
    /\ runs[r].pc = "finalize_results"
    /\ runs' = [runs EXCEPT ![r] =
           LET final == set_step([@ EXCEPT !.called = Append(@, "finalize_results")],
                                 "completed")
           IN [final EXCEPT !.pc = "returned",
                            !.returned = [error |-> None,
                                          current_step |-> final.current_step]]]
    /\ UNCHANGED <<engineVars, browserVars, conversation_history, chats, calls_made,
                   appended>>

NextOrchestrator ==
    \/ \E r \in Runs, task_type \in TaskTypes, complete \in BOOLEAN :
          run(r, task_type, complete)
    \/ \E r \in Runs, fetch_ok \in BOOLEAN : initialize_state(r, fetch_ok)
    \/ \E r \in Runs, analysis_ok \in BOOLEAN : route_task(r, analysis_ok)
    \/ \E r \in Runs : finalize_results(r)

(***************************************************************************)
(* ChatAgent.                                                              *)
(***************************************************************************)
\* The requests that may be calling the one chat_agent at the same time.
ChatCalls == {"a", "b"}

\* The calls made in all; each has its own user_message and response.
MaxChats == 5

\* The number of history entries chat and chat_stream keep, 20 in the code.
HistoryLimit == 4

ChatKinds == {"chat", "chat_stream"}

\* How a call ends: with the response; without the roster; with an exception
\* caught by its except; or, for chat_stream, with the consumer gone at one
\* of the status events.
ChatOutcomes(kind) ==
    {"response", "no_roster", "error"}
    \cup (IF kind = "chat_stream" THEN {"abandoned"} ELSE {})

NoChat == [pc |-> "idle", kind |-> None, call |-> 0, result |-> None]

InitChatAgent ==
    /\ conversation_history = <<>>
    /\ chats = [c \in ChatCalls |-> NoChat]
    /\ calls_made = 0
    /\ appended = <<>>

\* The two entries in the other order.
entries_assistant_first(call) ==
    <<[role |-> "assistant", content |-> call], [role |-> "user", content |-> call]>>

\* The two entries a call appends.
entries(call) ==
    <<[role |-> "user", content |-> call], [role |-> "assistant", content |-> call]>>

\* A history cut after every single append.
keep_last_eager(history) ==
    IF Len(history) >= HistoryLimit
    THEN SubSeq(history, Len(history) - HistoryLimit + 2, Len(history))
    ELSE history

\* if len(history) > 20: history = history[-20:]
keep_last(history) ==
    IF Len(history) > HistoryLimit
    THEN SubSeq(history, Len(history) - HistoryLimit + 1, Len(history))
    ELSE history

\* The update of conversation_history after create_message returned: two
\* appends and the cut, with no await between them.
update_history(history, call) == keep_last(history \o entries(call))

\* chat or chat_stream up to its first await.
chat(c, kind) ==
    /\ chats[c].pc \in {"idle", "done"}
    /\ calls_made < MaxChats
    /\ calls_made' = calls_made + 1
    /\ chats' = [chats EXCEPT ![c] =
           [pc |-> "gathering", kind |-> kind, call |-> calls_made + 1,
            result |-> None]]
    /\ UNCHANGED <<engineVars, browserVars, runs, conversation_history, appended>>

\* The rest of the call, from its last await on: the roster is looked up,
\* create_message is called with the history and, when it returns, the
\* history is updated and the response returned.
chat_end(c, ending) ==
    /\ chats[c].pc = "gathering"
    /\ ending \in ChatOutcomes(chats[c].kind)
    /\ chats' = [chats EXCEPT ![c] = [@ EXCEPT !.pc = "done", !.result = ending]]
    /\ IF ending = "response"
       THEN /\ conversation_history' =
                   update_history(conversation_history, chats[c].call)
            /\ appended' = appended \o entries(chats[c].call)
       ELSE UNCHANGED <<conversation_history, appended>>
    /\ UNCHANGED <<engineVars, browserVars, runs, calls_made>>

NextChatAgent ==
    \/ \E c \in ChatCalls, kind \in ChatKinds : chat(c, kind)
    \/ \E c \in ChatCalls, ending \in {"response", "no_roster", "error", "abandoned"} :
          chat_end(c, ending)

InitAgents == InitOrchestrator /\ InitChatAgent

Init == InitEngine /\ InitBrowser /\ InitAgents

SpecOrchestrator == Init /\ [][NextOrchestrator]_vars

SpecChatAgent == Init /\ [][NextChatAgent]_vars

Next ==
    \/ Initialize
    \/ \E p \in Procs : \E t \in ThreadsOf(p), db_ok \in MayFail :
          StartRequest(p, t, db_ok)
    \/ \E p \in Procs : NotInitialized(p)
    \/ \E p \in Procs, read_ok \in MayFail : ChatStreamEntry(p, read_ok)
    \/ \E p \in Procs : AstreamEnter(p)
    \/ \E p \in Procs, fetch_ok \in MayFail : FetchContext(p, fetch_ok)
    \/ \E p \in Procs : AgentFails(p)
    \/ \E p \in Procs, answer \in ModelAnswers : AgentNode(p, answer)
    \/ \E p \in Procs : ToolsNode(p, NoFault, CallOrder(MaxCalls))
    \/ \E p \in Procs : RecursionError(p)
    \/ \E p \in Procs : NothingToPersist(p)
    \/ \E p \in Procs, db_ok \in MayFail : PersistAnswer(p, db_ok)

\* The turn of p is over.
Ended(p) == pc[p] \in {"closed", "cancelled"}

\* The requests come one after the other: the second when the first is over.
InTurn(p) == p = "p1" \/ Ended("p1")

\* Requests served one at a time, with every failure of a tool handler and
\* of the caller.
NextTurn ==
    \/ Initialize
    \/ \E p \in Procs : \E t \in ThreadsOf(p), db_ok \in MayFail :
          InTurn(p) /\ StartRequest(p, t, db_ok)
    \/ \E p \in Procs : NotInitialized(p)
    \/ \E p \in Procs, read_ok \in MayFail : ChatStreamEntry(p, read_ok)
    \/ \E p \in Procs : AstreamEnter(p)
    \/ \E p \in Procs, fetch_ok \in MayFail : FetchContext(p, fetch_ok)
    \/ \E p \in Procs : AgentFails(p)
    \/ \E p \in Procs, answer \in ModelAnswers : AgentNode(p, answer)
    \/ \E p \in Procs, fault \in ToolFaults(MaxCalls),
             order \in CompletionOrders(MaxCalls) : ToolsNode(p, fault, order)
    \/ \E p \in Procs : RecursionError(p)
    \/ \E p \in Procs : ClientDisconnects(p)
    \/ \E p \in Procs : NothingToPersist(p)
    \/ \E p \in Procs, db_ok \in MayFail : PersistAnswer(p, db_ok)

NextBrowser ==
    \/ Tick
    \/ \E s \in Sessions : create_session(s)
    \/ \E k \in Tasks, s \in Sessions : set_browser_context(k, s)
    \/ \E k \in Tasks, call \in ToolCalls : ToolStart(k, call)
    \/ \E k \in Tasks : NavigationDone(k)
    \/ \E k \in Tasks : ScreenshotDone(k)

Spec == Init /\ [][Next]_vars

SpecTurn == Init /\ [][NextTurn]_vars

NextPool ==
    \/ Tick
    \/ \E s \in Sessions : create_session(s)
    \/ \E o \in PoolOps, s \in Sessions : close_session_begin(o, s)
    \/ \E o \in PoolOps : close_session_end(o)
    \/ \E o \in PoolOps : cleanup_expired_sessions(o)
    \/ \E o \in PoolOps : cleanup_next(o)
    \/ \E o \in PoolOps : stop_begin(o)
    \/ \E o \in PoolOps : stop_close(o)
    \/ \E o \in PoolOps : stop_end(o)

\* One tool call of a turn together with one operation of the pool.
PoolTasks == {"k1"}
OnePoolOp == {"o1"}

NextSessions ==
    \/ Tick
    \/ \E s \in Sessions : create_session(s)
    \/ \E k \in PoolTasks, s \in Sessions : set_browser_context(k, s)
    \/ \E k \in PoolTasks, call \in ToolCalls : ToolStart(k, call)
    \/ \E k \in PoolTasks : NavigationDone(k)
    \/ \E k \in PoolTasks : ScreenshotDone(k)
    \/ \E o \in OnePoolOp, s \in Sessions : close_session_begin(o, s)
    \/ \E o \in OnePoolOp : close_session_end(o)
    \/ \E o \in OnePoolOp : cleanup_expired_sessions(o)
    \/ \E o \in OnePoolOp : cleanup_next(o)
    \/ \E o \in OnePoolOp : stop_begin(o)
    \/ \E o \in OnePoolOp : stop_close(o)
    \/ \E o \in OnePoolOp : stop_end(o)

SpecBrowser == Init /\ [][NextBrowser]_vars

SpecSessions == Init /\ [][NextSessions]_vars

SpecPool == Init /\ [][NextPool]_vars

(***************************************************************************)
(* Properties of the chat engine.                                          *)
(***************************************************************************)
Terminal == {"response", "error"}

TerminalCount(evs) == Cardinality({i \in DOMAIN evs : evs[i].type \in Terminal})

ErrorCount(evs) == Cardinality({i \in DOMAIN evs : evs[i].type = "error"})

HasEvent(p, type) == \E i \in DOMAIN stream[p] : stream[p][i].type = type

HasError(p, message) ==
    \E i \in DOMAIN stream[p] :
        stream[p][i].type = "error" /\ stream[p][i].message = message

IdsOf(log) == {log[i].id : i \in DOMAIN log}

\* C1: every turn of the streaming interface sends the caller exactly one
\* terminal event, one response or one error, on every path of the turn.
C1_ExactlyOneTerminal ==
    \A p \in Procs : pc[p] = "closed" => TerminalCount(stream[p]) = 1

\* C2: no event of any type follows the terminal response or error event of
\* a turn (so there is at most one terminal event, and it is the last event).
C2_NothingAfterTerminal ==
    \A p \in Procs : \A i \in DOMAIN stream[p] :
        stream[p][i].type \in Terminal => i = Len(stream[p])

\* In a log, every tool call of an assistant message has at most one tool
\* message, and has one before the next assistant or user message.
Paired(log) ==
    \A i \in DOMAIN log :
        log[i].role = "assistant" =>
            LET later == {k \in (i + 1)..Len(log) :
                             log[k].role \in {"assistant", "user"}}
                stop == IF later = {} THEN Len(log) + 1 ELSE Min(later)
                answers(c) == {j \in (i + 1)..Len(log) :
                                  log[j].role = "tool" /\ log[j].tool_call_id = c}
            IN \A n \in DOMAIN log[i].tool_calls :
                   /\ Cardinality(answers(log[i].tool_calls[n])) <= 1
                   /\ later # {} =>
                          \E j \in answers(log[i].tool_calls[n]) : j < stop

\* C3: in every checkpointed message log each tool call of an assistant
\* message has exactly one tool message, appended before the next assistant
\* or user message is.
C3_ToolCallsPaired == \A t \in Threads : Paired(store[t].messages)

\* The graph run of p has merged its input and run no node yet.
JustMerged(p) == pc[p] = "graph" /\ next_node[p] = "fetch_context"

\* C4: a turn that starts from a checkpoint of N messages continues with a
\* log that holds those N messages once each, in their order, followed by the
\* new user message; no message of the log occurs twice. (Messages of a turn
\* running at the same time on the thread may lie in between.)
C4_ResumeIdempotent ==
    \A p \in Procs :
        JustMerged(p) =>
            LET log == channels[p]
                old == base[p].messages
                mine(m) == m.id \in IdsOf(old) \/ m.id[1] = p
                kept == SelectSeq(log, mine)
            IN /\ \A i, j \in DOMAIN log : log[i].id = log[j].id => i = j
               /\ Len(kept) = Len(old) + 1
               /\ SubSeq(kept, 1, Len(old)) = old
               /\ log[Len(log)] = kept[Len(kept)]
               /\ log[Len(log)].role = "user"
               /\ log[Len(log)].id \notin IdsOf(old)

C4_Witness ==
    \E p \in Procs :
        JustMerged(p) /\ has_existing_state[p] /\ Len(base[p].messages) >= 2

\* Every model call of the turn of p was answered with tool calls.
ToolLoop(p) ==
    /\ invocations[p] >= 1
    /\ Cardinality({i \in DOMAIN channels[p] :
                       /\ channels[p][i].role = "assistant"
                       /\ channels[p][i].id[1] = p
                       /\ channels[p][i].tool_calls # <<>>}) = invocations[p]

\* C5: a turn never runs more super-steps or model calls than the limit, and
\* a turn whose model calls were all answered with tool calls ends with one
\* error event (the recursion error) and no response.
C5_TurnBounded ==
    \A p \in Procs :
        /\ step[p] <= RecursionLimit
        /\ invocations[p] <= RecursionLimit
        /\ (pc[p] = "closed" /\ ToolLoop(p)) =>
               /\ HasError(p, "GraphRecursionError")
               /\ ErrorCount(stream[p]) = 1
               /\ ~HasEvent(p, "response")

C5_Witness ==
    \E p \in Procs :
        pc[p] = "closed" /\ ToolLoop(p) /\ HasError(p, "GraphRecursionError")

\* The turn of p got as far as writing checkpoints.
Wrote(p) == pc[p] \in {"graph", "persist", "closed"} /\ channels[p] # <<>>

\* C6: of two turns that start on the same thread from the same stored
\* checkpoint, the later writer is refused: they never both end with a
\* response, and the checkpoint of the first is still in the store.
C6_StaleWriteRejected ==
    \A p, q \in Procs :
        (/\ p # q
         /\ Wrote(p) /\ Wrote(q)
         /\ thread[p] = thread[q]
         /\ base[p].version = base[q].version)
        => ~(HasEvent(p, "response") /\ HasEvent(q, "response"))

\* The turn of p failed with an error of the engine.
EngineError(p) ==
    HasError(p, "ModelInvocationFailure") \/ HasError(p, "GraphRecursionError")

\* C7: after a turn failed with an engine-level error the stored checkpoint
\* of its thread is the one that was there before the turn, and one error
\* event was sent.
C7_FailedTurnKeepsCheckpoint ==
    \A p \in Procs :
        (pc[p] = "closed" /\ EngineError(p)) =>
            /\ store[thread[p]] = base[p]
            /\ ErrorCount(stream[p]) = 1

\* A handler of a tools step of the turn of p failed and its error result is
\* in the log.
ToolFailed(p) ==
    \E i \in DOMAIN channels[p] :
        /\ channels[p][i].role = "tool"
        /\ channels[p][i].content = "error"
        /\ channels[p][i].id[1] = p

\* The terminal events chat_stream itself produced in the turn of p.
EngineTerminalCount(p) ==
    Cardinality({i \in DOMAIN stream[p] :
                    stream[p][i].by = "agent" /\ stream[p][i].type \in Terminal})

C12_LateToolCallsTimeOut ==
    \A p \in Procs : \A i \in DOMAIN channels[p] :
        channels[p][i].content # "late result"

\* The last node the graph run of p executed.
LastExecuted(p) == executed[p][Len(executed[p])]

\* C13: the steps of a turn run in the order context fetch (once and first),
\* model, then (tools, model) pairs: the tools step runs only directly after a
\* model step whose message carries tool calls, and the turn gets to its
\* response only from a model step whose message carries no tool calls.
C13_StepOrder ==
    \A p \in Procs :
        LET nodes == executed[p]
            log == channels[p]
        IN /\ \A i \in DOMAIN nodes :
                  /\ nodes[i] = "fetch_context" <=> i = 1
                  /\ nodes[i] = "tools" => nodes[i - 1] = "agent"
                  /\ (nodes[i] = "agent" /\ i > 2) => nodes[i - 1] = "tools"
           /\ (pc[p] = "graph" /\ next_node[p] = "tools") =>
                  /\ LastExecuted(p) = "agent"
                  /\ log[Len(log)].role = "assistant"
                  /\ log[Len(log)].tool_calls # <<>>
           /\ HasEvent(p, "response") =>
                  /\ LastExecuted(p) = "agent"
                  /\ log[Len(log)].role = "assistant"
                  /\ log[Len(log)].tool_calls = <<>>

C13_Witness ==
    \E p \in Procs :
        /\ HasEvent(p, "response")
        /\ executed[p] = <<"fetch_context", "agent", "tools", "agent">>

\* The events chat_stream produced in the turn of p.
EngineEvents(p) == SelectSeq(stream[p], LAMBDA e : e.by = "agent")

\* The turn of p started on a fresh thread and the model answered its one
\* call with a text.
DirectAnswer(p) ==
    /\ HasEvent(p, "response")
    /\ ~has_existing_state[p]
    /\ base[p].version = 0
    /\ executed[p] = <<"fetch_context", "agent">>

\* C14: on a fresh thread whose model answers with a text, the engine sends
\* exactly one status event and then exactly one response event.
C14_ScenarioA ==
    \A p \in Procs :
        DirectAnswer(p) =>
            /\ Len(EngineEvents(p)) = 2
            /\ EngineEvents(p)[1].type = "status"
            /\ EngineEvents(p)[2].type = "response"

\* The status event with this message was sent in the turn of p.
HasStatus(p, message) ==
    \E i \in DOMAIN stream[p] :
        stream[p][i].type = "status" /\ stream[p][i].message = message

\* The context fetch of the turn of p failed.
FetchFailed(p) ==
    /\ executed[p] # <<>>
    /\ ~HasStatus(p, "Context loaded")

\* C15: a failing context fetch does not end the turn: empty context takes
\* the place of the data, a status event reports the problem, no error event
\* is sent for it and the model is invoked next.
C15_FetchFailureNotFatal ==
    \A p \in Procs :
        FetchFailed(p) =>
            /\ roster_data[p] = "empty"
            /\ HasStatus(p, "Error loading context")
            /\ ~HasError(p, "ContextFetchFailure")
            /\ \/ pc[p] = "graph" /\ next_node[p] = "agent"
               \/ pc[p] = "cancelled"
               \/ invocations[p] >= 1

C15_Witness ==
    \E p \in Procs :
        /\ FetchFailed(p)
        /\ pc[p] = "closed"
        /\ HasEvent(p, "response")
        /\ ErrorCount(stream[p]) = 0

\* C16: the tool messages of one assistant message are appended in the order
\* of its tool calls, each with the id of its call, whatever the order in
\* which the handlers finished.
C16_ToolResultsInCallOrder ==
    \A p \in Procs :
        LET log == channels[p]
        IN \A i \in DOMAIN log :
               (/\ log[i].role = "assistant"
                /\ i < Len(log)
                /\ log[i + 1].role = "tool")
               => \A k \in DOMAIN log[i].tool_calls :
                      /\ i + k <= Len(log)
                      /\ log[i + k].role = "tool"
                      /\ log[i + k].tool_call_id = log[i].tool_calls[k]

C16_Witness ==
    \E p \in Procs :
        /\ Len(completed[p]) >= 2
        /\ completed[p][1] # 1
        /\ channels[p][Len(channels[p])].role = "tool"

\* No other request uses the thread of p.
Alone(p) == \A q \in Procs \ {p} : thread[q] # thread[p]

Running(t) ==
    \E p \in Procs :
        thread[p] = t /\ pc[p] \in {"chat_stream", "astream", "graph", "persist"}

\* The tool calls of the last assistant message of the log that have no tool
\* message.
pending_tool_calls(log) ==
    LET assistants == {i \in DOMAIN log : log[i].role = "assistant"}
    IN IF assistants = {} THEN {}
       ELSE LET i == CHOOSE x \in assistants : \A y \in assistants : y <= x
            IN {log[i].tool_calls[n] : n \in DOMAIN log[i].tool_calls}
               \ {log[j].tool_call_id : j \in {k \in DOMAIN log : log[k].role = "tool"}}

\* C18: while no turn is running on a thread, its stored log has no pending
\* tool calls.
C18_NoPendingAtRest ==
    \A t \in Threads : ~Running(t) => pending_tool_calls(store[t].messages) = {}

\* C19: a turn cancelled by its caller lets the tool calls in flight finish
\* (their tool messages are in the log) and ends with the error event
\* Cancelled.
C19_CancelledTurnFails ==
    \A p \in Procs :
        pc[p] = "cancelled" =>
            /\ pending_tool_calls(channels[p]) = {}
            /\ HasError(p, "Cancelled")

(***************************************************************************)
(* Properties of the browser tools and the session pool.                   *)
(***************************************************************************)
\* C8: page.goto is never called for a URL whose destination host is not an
\* allowed domain.
C8_NavigationsAllowed == \A n \in navigations : HostAllowed(n.url)

\* C9: the page operations of two tool calls on the same session never
\* overlap.
C9_SessionExclusive ==
    \A j, k \in Tasks :
        (j # k /\ tpc[j] = "driving" /\ tpc[k] = "driving") => used[j] # used[k]

\* C10: a browser tool acts on the session, and stores under the thread, that
\* were set for its own turn, whatever another turn sets meanwhile.
C10_ToolActsOnOwnContext ==
    /\ \A k \in Tasks : tpc[k] = "driving" => used[k] = bound[k].session
    /\ \A sh \in screenshots :
           sh.session = bound[sh.task].session /\ sh.thread = bound[sh.task].thread

\* The operation is between a read of the sessions map and the write that
\* follows it.
Mid(o) == ops[o].pc \in {"closing", "stopping"}

\* C20: create_session, close_session, the expiry sweep and stop never
\* interleave their reads and writes of the sessions map: while one of them is
\* between its read and its write, the keys of the map are those it read.
C20_PoolOpsExclusive ==
    \A o \in PoolOps : Mid(o) => Present = ops[o].snapshot

\* The sweep o runs with no other close, sweep or stop in progress or done.
SweepAlone(o) ==
    ops[o].kind = "sweep" /\ \A o2 \in PoolOps \ {o} : ops[o2] = NoOp

Usable(s) == s \in Sessions /\ sessions[s].present /\ sessions[s].is_active

\* C22: get_session(id) hands out the session and sets its last_activity to
\* the time of the use, so last_activity never decreases; for an id that was
\* never created, was closed or is not active it hands out nothing and
\* changes nothing; a session that was closed is never active again and
\* never comes back into the map.
C22_GetSession ==
    [][/\ \A k \in Tasks :
            tpc[k] = "ready" /\ tpc'[k] # "ready" =>
                IF Usable(current_session_id)
                THEN /\ sessions'[current_session_id].last_activity = clock
                     /\ used'[k] \in {None, current_session_id}
                ELSE /\ used'[k] = None
                     /\ result'[k] = "error"
                     /\ sessions' = sessions
       /\ \A s \in Sessions :
            /\ sessions[s].present /\ sessions'[s].present =>
                   sessions'[s].last_activity >= sessions[s].last_activity
            /\ sessions[s] # NoSession /\ ~sessions[s].is_active =>
                   ~sessions'[s].is_active
            /\ sessions[s] \in {Removed, Dropped} => sessions'[s] = sessions[s]]_vars

\* A tool asked for the session of its turn after stop had closed it, and
\* got none.
C22_Witness ==
    \E k \in Tasks :
        /\ tpc[k] = "done" /\ result[k] = "error" /\ used[k] = None
        /\ bound[k].session \in Sessions
        /\ sessions[bound[k].session].present
        /\ ~sessions[bound[k].session].is_active

\* C26: the idle sweep, close_session and stop never close a session while a
\* tool call that borrowed it is still running: the session a running tool
\* call drives is in the map and active.
C26_NoCloseWhileBorrowed ==
    \A k \in Tasks : tpc[k] = "driving" => Usable(used[k])

\* C27: close_session is idempotent and safe when calls overlap: closing an
\* id the map does not hold changes nothing, and of two close_session calls
\* (or a close_session and a sweep) for one session none fails.
C27_CloseIdempotent ==
    \A o \in PoolOps : ops[o].pc = "done" => ops[o].result = "ok"

\* C28: no browser session is leaked: every session whose context was opened
\* and not closed is in the sessions map.
C28_NoLeakedSession ==
    \A s \in Sessions : sessions[s].is_active => sessions[s].present

\* C23: every turn emits the metadata event with the resolved thread_id
\* exactly once, as the first event of the turn, before any status, response
\* or error event.
C23_MetadataFirstAndOnce ==
    \A p \in Procs :
        stream[p] # <<>> =>
            /\ stream[p][1] = ApiEvent("metadata", thread[p])
            /\ \A i \in DOMAIN stream[p] : stream[p][i].type = "metadata" => i = 1

\* The place of a value of current_step in the workflow.
StepRank(value) ==
    CASE value = "pending" -> 0
      [] value = "initialized" -> 1
      [] value \in {"analyzing_players", "analyzing_trade"} -> 2
      [] value = "completed" -> 3
      [] OTHER -> -1

\* C24: OrchestratorAgent.run never raises: it calls initialize_state,
\* route_task and finalize_results in this order and returns the state with
\* current_step "completed", or, when a step raises, a result with
\* current_step "failed" and the error text; current_step only moves forward
\* through pending, initialized, analyzing_players or analyzing_trade,
\* completed.
C24_RunNeverRaises ==
    \A r \in Runs :
        /\ ~runs[r].raised
        /\ runs[r].pc = "returned" =>
               \/ /\ runs[r].returned = [error |-> None, current_step |-> "completed"]
                  /\ runs[r].current_step = "completed"
                  /\ runs[r].called =
                         <<"initialize_state", "route_task", "finalize_results">>
               \/ /\ runs[r].returned.current_step = "failed"
                  /\ runs[r].returned.error # None
                  /\ runs[r].current_step # "completed"
        /\ \A i \in DOMAIN runs[r].steps :
               /\ StepRank(runs[r].steps[i]) >= 0
               /\ \A j \in DOMAIN runs[r].steps :
                      i < j => StepRank(runs[r].steps[i]) < StepRank(runs[r].steps[j])

\* One run returned the completed state, another failed in its analysis.
C24_Witness ==
    \E r1, r2 \in Runs :
        /\ runs[r1].pc = "returned" /\ runs[r1].returned.current_step = "completed"
        /\ Len(runs[r1].steps) = 4
        /\ runs[r2].pc = "returned" /\ runs[r2].returned.current_step = "failed"
        /\ Len(runs[r2].steps) = 3

\* The last n entries of a sequence, all of it when it is shorter.
Last(seq, n) == SubSeq(seq, Len(seq) - Min({n, Len(seq)}) + 1, Len(seq))

C29_HistoryPairs ==
    /\ [][\A c \in ChatCalls :
             chats[c].pc = "gathering" /\ chats'[c].pc = "done" =>
                 IF chats'[c].result = "response"
                 THEN /\ Len(appended') = Len(appended) + 2
                      /\ SubSeq(appended', 1, Len(appended)) = appended
                      /\ conversation_history' =
                             Last(conversation_history \o
                                      SubSeq(appended', Len(appended) + 1,
                                             Len(appended')), HistoryLimit)
                 ELSE /\ conversation_history' = conversation_history
                      /\ appended' = appended]_vars
    /\ [](/\ Len(appended) % 2 = 0
          /\ \A i \in DOMAIN appended :
                 i % 2 = 1 =>
                     /\ appended[i].role = "user"
                     /\ appended[i + 1].role = "assistant"
                     /\ appended[i + 1].content = appended[i].content)

\* A call failed while another, started before it, had answered.
C29_Witness ==
    \E c1, c2 \in ChatCalls :
        /\ chats[c1].pc = "done" /\ chats[c1].result = "response"
        /\ chats[c2].pc = "done" /\ chats[c2].result = "error"
        /\ chats[c1].call < chats[c2].call
        /\ Len(appended) >= 4

\* A message conversation_service is meant to hold too: a user message or a
\* final assistant answer.
Conversational(m) ==
    m.role = "user" \/ (m.role = "assistant" /\ m.tool_calls = <<>>)

\* The roles of the user messages and final answers of a log, in order.
saved_roles(log) ==
    LET kept == SelectSeq(log, Conversational)
    IN [i \in DOMAIN kept |-> kept[i].role]

\* C30: the conversation store and the checkpoint store do not diverge: while
\* no turn is running on a thread, the user messages and final assistant
\* answers saved by conversation_service are, in order, those of the
\* thread's checkpointed log.
C30_StoresAgree ==
    \A t \in Threads :
        ~Running(t) => conversation[t] = saved_roles(store[t].messages)
====
